---- MODULE Spec2Model ----
(***************************************************************************)
(* A model of src/src/model.py: the convolutional feature encoder with its *)
(* resettable LSTM memory (FeatureEncoderNet), the actor-critic head       *)
(* (A2CNet) and the curiosity module (ICMNet); and of the statistics        *)
(* logger of src/src/logger.py (LogData, TemporalLogger) with its file.     *)
(*                                                                         *)
(* A tensor is modelled by its shape and, for 2-D tensors, by one abstract *)
(* value per row standing for the content of that row: a finite number or  *)
(* NaN (a row that holds a NaN).  Weights are fixed and abstracted away:   *)
(* what the model keeps of a layer is how it maps shapes, which rows of    *)
(* its input each row of its output depends on, and that NaN propagates.   *)
(***************************************************************************)
EXTENDS Integers, Sequences, FiniteSets, TLC

VARIABLES
    cuda,   \* torch.cuda.is_available() on this host
    enc,    \* the recurrent FeatureEncoderNet (A2CNet.feat_enc_net, or a bare one)
    head,   \* the A2CNet around enc: num_step, writer, num_actions
    icm,    \* the ICMNet: its own non-recurrent FeatureEncoderNet, num_actions
    ret,    \* the last call: what was called, with what, and what it returned
    logger, \* the TemporalLogger: one LogData per metric name
    file,   \* the .hdf5 file of the logger: one group of four datasets per metric
    slots   \* per environment slot, what its own history alone makes of its row

vars == <<cuda, enc, head, icm, ret, logger, file, slots>>

----------------------------------------------------------------------------
(* Bounds of the model *)

MaxBatch == 2

MaxSteps == 2

MaxRecords == 3

----------------------------------------------------------------------------
(* Constants of the program *)

num_filter == 32

size == 3

stride == 2

pad == size \div 2

h1 == 256

fc_hidden == 256

out_size == 288

default_in_size == 288

default_n_stack == 4

default_decimate_step == 100

----------------------------------------------------------------------------
(* Values and tensors *)

NaN == 0 - 1

FinVals == 0 .. 1

Vals == FinVals \cup {NaN}

Unset == [def |-> FALSE, d0 |-> 0, d1 |-> 0, rows |-> <<>>, grad |-> FALSE]

Tensor(d0, d1, rows, grad) ==
    [def |-> TRUE, d0 |-> d0, d1 |-> d1, rows |-> rows, grad |-> grad]

\* torch.empty in place of torch.zeros: whatever the allocator left there.
zeros_uninitialized(d0, d1) == Tensor(d0, d1, [i \in 1 .. d0 |-> 1], FALSE)

zeros(d0, d1) == Tensor(d0, d1, [i \in 1 .. d0 |-> 0], FALSE)

\* Optional arguments: None is the empty sequence, a given value x is <<x>>.
None == <<>>

Some(x) == <<x>>

IsNone(a) == Len(a) = 0

\* The sum of the finite values of a sequence, NaN as soon as one entry is NaN.
RECURSIVE SumVals(_)
SumVals(s) ==
    IF Len(s) = 0 THEN 0
    ELSE LET t == SumVals(Tail(s))
         IN  IF Head(s) = NaN \/ t = NaN THEN NaN ELSE Head(s) + t

Wrap(v) == IF v = NaN THEN NaN ELSE v % Cardinality(FinVals)

----------------------------------------------------------------------------
(* ConvBlock *)

\* Output size of one Conv2d(kernel size, stride, padding pad) along one axis.
ConvOut(n) == (n + 2 * pad - size) \div stride + 1

\* Spatial size after the four convolutions and AvgPool2d(2).
PoolOut(hw) == ConvOut(ConvOut(ConvOut(ConvOut(hw)))) \div 2

\* x = [n, c, hw, rows]: a batch of shape [n, c, hw, hw], rows[i] the content
\* of observation i.  The result is flattened to [n, num_filter * p * p].
ConvBlock_forward(ch_in, x) ==
    IF x.c # ch_in THEN [err |-> "shape", out |-> Unset]
    ELSE IF PoolOut(x.hw) < 1 THEN [err |-> "shape", out |-> Unset]
    ELSE [err |-> "",
          out |-> Tensor(x.n, num_filter * PoolOut(x.hw) * PoolOut(x.hw),
                         x.rows, TRUE)]

----------------------------------------------------------------------------
(* FeatureEncoderNet *)

FeatureEncoderNet(n_stack, in_size, is_lstm) ==
    [is_lstm |-> is_lstm, in_size |-> in_size, ch_in |-> n_stack,
     h_t1 |-> Unset, c_t1 |-> Unset]

\* (1 - resetTensor.view(-1, 1)).float() * t, with broadcasting of the first
\* dimension; computed under torch.no_grad().
MaskTimes(mask, t) ==
    LET m == Len(mask)
        n == t.d0
        k == IF m = 1 THEN n ELSE m
        keep(i) == IF mask[IF m = 1 THEN 1 ELSE i] THEN 0 ELSE 1
        old(i)  == t.rows[IF n = 1 THEN 1 ELSE i]
    IN  IF ~t.def THEN [err |-> "attr", out |-> t]
        ELSE IF m # n /\ m # 1 /\ n # 1 THEN [err |-> "shape", out |-> t]
        ELSE [err |-> "",
              out |-> Tensor(k, t.d1,
                             [i \in 1 .. k |->
                                 IF old(i) = NaN THEN NaN ELSE keep(i) * old(i)],
                             FALSE)]

\* Line 91, given the outcome h of line 90: c_t1 is multiplied by the mask.
reset_lstm_c(e, h, c) ==
    IF c.err # "" THEN [enc |-> [e EXCEPT !.h_t1 = h.out], err |-> c.err]
    ELSE [enc |-> [e EXCEPT !.h_t1 = h.out, !.c_t1 = c.out], err |-> ""]

\* Line 90: h_t1 is multiplied by the mask, moved to the GPU first.
reset_lstm_h(e, mask, h) ==
    IF ~cuda THEN [enc |-> e, err |-> "cuda"]
    ELSE IF h.err # "" THEN [enc |-> e, err |-> h.err]
    ELSE reset_lstm_c(e, h, MaskTimes(mask, e.c_t1))

\* reset_lstm without the test of resetTensor.sum(): the mask is applied even
\* when it resets nothing.
reset_lstm_unguarded(e, buf_size, reset_indices) ==
    IF ~e.is_lstm THEN [enc |-> e, err |-> ""]
    ELSE IF IsNone(reset_indices) THEN
        IF IsNone(buf_size) THEN [enc |-> e, err |-> "type"]
        ELSE IF buf_size[1] < 0 THEN [enc |-> e, err |-> "shape"]
        ELSE [enc |-> [e EXCEPT !.h_t1 = zeros(buf_size[1], h1),
                                !.c_t1 = zeros(buf_size[1], h1)],
              err |-> ""]
    ELSE reset_lstm_h(e, reset_indices[1], MaskTimes(reset_indices[1], e.h_t1))

\* reset_lstm(buf_size, reset_indices): the encoder afterwards and the error
\* raised, "" when the call returns.
reset_lstm(e, buf_size, reset_indices) ==
    IF ~e.is_lstm THEN [enc |-> e, err |-> ""]
    ELSE IF IsNone(reset_indices) THEN
        IF IsNone(buf_size) THEN [enc |-> e, err |-> "type"]
        ELSE IF buf_size[1] < 0 THEN [enc |-> e, err |-> "shape"]
        ELSE [enc |-> [e EXCEPT !.h_t1 = zeros(buf_size[1], h1),
                                !.c_t1 = zeros(buf_size[1], h1)],
              err |-> ""]
    ELSE IF \A i \in 1 .. Len(reset_indices[1]) : ~reset_indices[1][i]
         THEN [enc |-> e, err |-> ""]
    ELSE reset_lstm_h(e, reset_indices[1], MaskTimes(reset_indices[1], e.h_t1))

\* x.view(-1, in_size) of a [n, f] tensor: row j of the result holds the
\* flat elements (j-1)*in_size .. j*in_size - 1, which lie in the rows
\* lo(j) .. hi(j) of x.
view(t, in_size) ==
    LET total == t.d0 * t.d1
        k     == total \div in_size
        lo(j) == ((j - 1) * in_size) \div t.d1 + 1
        hi(j) == (j * in_size - 1) \div t.d1 + 1
    IN  IF total = 0 \/ total % in_size # 0 THEN [err |-> "shape", out |-> Unset]
        ELSE [err |-> "",
              out |-> Tensor(k, in_size,
                             [j \in 1 .. k |->
                                 Wrap(SumVals(SubSeq(t.rows, lo(j), hi(j))))],
                             t.grad)]

\* One row of nn.LSTMCell: the new (h, c) of a row from its input and its
\* old (h, c).  The weights are fixed; a NaN anywhere makes the row NaN.
LSTMCell_row(x, h, c) ==
    IF x = NaN \/ h = NaN \/ c = NaN THEN [h |-> NaN, c |-> NaN]
    ELSE LET c2 == Wrap(x + h + c + 1)
         IN  [h |-> Wrap(c2 + x), c |-> c2]

\* self.lstm(x, (h_t1, c_t1)): the batch sizes of x, h_t1 and c_t1 must agree.
LSTMCell(e, x) ==
    IF ~e.h_t1.def \/ ~e.c_t1.def THEN [err |-> "attr", enc |-> e]
    ELSE IF x.d0 # e.h_t1.d0 \/ x.d0 # e.c_t1.d0
            \/ e.h_t1.d1 # h1 \/ e.c_t1.d1 # h1
         THEN [err |-> "shape", enc |-> e]
    ELSE LET r(i) == LSTMCell_row(x.rows[i], e.h_t1.rows[i], e.c_t1.rows[i])
         IN  [err |-> "",
              enc |-> [e EXCEPT
                  !.h_t1 = Tensor(x.d0, h1, [i \in 1 .. x.d0 |-> r(i).h], TRUE),
                  !.c_t1 = Tensor(x.d0, h1, [i \in 1 .. x.d0 |-> r(i).c], TRUE)]]

\* FeatureEncoderNet.forward, lines 110-111, given the outcome of the cell.
forward_lstm(e, ls) ==
    IF ls.err # "" THEN [enc |-> e, err |-> ls.err, out |-> Unset]
    ELSE [enc |-> ls.enc, err |-> "", out |-> ls.enc.h_t1]

\* FeatureEncoderNet.forward, lines 108-114, given the outcome of the view.
forward_view(e, vw) ==
    IF vw.err # "" THEN [enc |-> e, err |-> vw.err, out |-> Unset]
    ELSE IF ~e.is_lstm THEN [enc |-> e, err |-> "", out |-> vw.out]
    ELSE forward_lstm(e, LSTMCell(e, vw.out))

\* FeatureEncoderNet.forward, given the outcome of self.conv(x).
forward_conv(e, cv) ==
    IF cv.err # "" THEN [enc |-> e, err |-> cv.err, out |-> Unset]
    ELSE forward_view(e, view(cv.out, e.in_size))

\* FeatureEncoderNet.forward(x): the encoder afterwards, the error raised and
\* the tensor returned.
forward(e, x) == forward_conv(e, ConvBlock_forward(e.ch_in, x))

----------------------------------------------------------------------------
(* Linear layers, ForwardNet, InverseNet, AdversarialHead, ICMNet *)

\* nn.Linear(in_features, out_features) applied to a 2-D tensor.
Linear(in_features, out_features, t) ==
    IF t.d1 # in_features THEN [err |-> "shape", out |-> Unset]
    ELSE [err |-> "", out |-> Tensor(t.d0, out_features, t.rows, TRUE)]

\* torch.cat((a, b), 1)
cat(a, b) ==
    IF a.d0 # b.d0 THEN [err |-> "shape", out |-> Unset]
    ELSE [err |-> "",
          out |-> Tensor(a.d0, a.d1 + b.d1,
                         [i \in 1 .. a.d0 |-> Wrap(SumVals(<<a.rows[i], b.rows[i]>>))],
                         a.grad \/ b.grad)]

\* fc2 of a two-layer net, given the outcome of fc1.
fc2(a, out_features) ==
    IF a.err # "" THEN a ELSE Linear(fc_hidden, out_features, a.out)

\* ForwardNet(in_size).forward(x) = fc2(fc1(x))
ForwardNet_forward(in_size, x) == fc2(Linear(in_size, fc_hidden, x), out_size)

\* InverseNet(num_actions, feat_size).forward(x) = fc2(fc1(x))
InverseNet_forward(num_actions, feat_size, x) ==
    fc2(Linear(feat_size * 2, fc_hidden, x), num_actions)

\* scatter_ with the columns counted from 1: the one lands a column too far
\* to the left, and action 0 sets nothing.
scatter_one_hot_from_1(action, num_actions) ==
    [r \in 1 .. Len(action) |->
        [j \in 1 .. num_actions |-> IF j = action[r] THEN 1 ELSE 0]]

\* torch.zeros(len(action), num_actions).scatter_(1, action.view(-1, 1), 1):
\* row r is all zero but for a one at column action[r] (columns from 0).
scatter_one_hot(action, num_actions) ==
    [r \in 1 .. Len(action) |->
        [j \in 1 .. num_actions |-> IF j - 1 = action[r] THEN 1 ELSE 0]]

AdversarialFail(e, one_hot) ==
    [err |-> e, one_hot |-> one_hot, next_feature_pred |-> Unset, action_pred |-> Unset]

\* Lines 232-234, given the forward prediction and the outcome of inv_net.
Adversarial_ret(one_hot, pred, apred) ==
    IF apred.err # "" THEN AdversarialFail(apred.err, one_hot)
    ELSE [err |-> "", one_hot |-> one_hot, next_feature_pred |-> pred.out,
          action_pred |-> apred.out]

\* Line 231-232, given the concatenation of the two features.
Adversarial_inv(feat_size, num_actions, one_hot, pred, inv_in) ==
    IF inv_in.err # "" THEN AdversarialFail(inv_in.err, one_hot)
    ELSE Adversarial_ret(one_hot, pred,
                         InverseNet_forward(num_actions, feat_size, inv_in.out))

\* Line 227-231, given the outcome of fwd_net.
Adversarial_pred(feat_size, num_actions, current_feature, next_feature, one_hot, pred) ==
    IF pred.err # "" THEN AdversarialFail(pred.err, one_hot)
    ELSE Adversarial_inv(feat_size, num_actions, one_hot, pred,
                         cat(current_feature, next_feature))

\* Line 226-227, given the concatenation of the feature and the one-hot action.
Adversarial_fwd(feat_size, num_actions, current_feature, next_feature, one_hot, fwd_in) ==
    IF fwd_in.err # "" THEN AdversarialFail(fwd_in.err, one_hot)
    ELSE Adversarial_pred(feat_size, num_actions, current_feature, next_feature,
                          one_hot,
                          ForwardNet_forward(feat_size + num_actions, fwd_in.out))

\* AdversarialHead(feat_size, num_actions).forward(current_feature,
\* next_feature, action): the error raised, the one-hot encoding built and
\* the two predictions.
AdversarialHead_forward(feat_size, num_actions, current_feature, next_feature, action) ==
    IF \E r \in 1 .. Len(action) : action[r] < 0 \/ action[r] >= num_actions
    THEN AdversarialFail("index", <<>>)
    ELSE Adversarial_fwd(feat_size, num_actions, current_feature, next_feature,
                         scatter_one_hot(action, num_actions),
                         cat(current_feature,
                             Tensor(Len(action), num_actions,
                                    [r \in 1 .. Len(action) |-> 0], FALSE)))

\* An ICMNet whose encoder is built with the default is_lstm = True.
ICMNet_recurrent(n_stack, num_actions, in_size) ==
    [in_size |-> in_size, num_actions |-> num_actions,
     feat_enc_net |-> FeatureEncoderNet(n_stack, in_size, TRUE)]

ICMNet(n_stack, num_actions, in_size) ==
    [in_size |-> in_size, num_actions |-> num_actions,
     feat_enc_net |-> FeatureEncoderNet(n_stack, in_size, FALSE)]

ICMFail(m, e, err, one_hot) ==
    [icm |-> [m EXCEPT !.feat_enc_net = e], err |-> err, one_hot |-> one_hot,
     out |-> <<>>]

\* Line 279, given the outcome of pred_net.
ICMNet_ret(m, f2, p) ==
    IF p.err # "" THEN ICMFail(m, f2.enc, p.err, p.one_hot)
    ELSE [icm |-> [m EXCEPT !.feat_enc_net = f2.enc], err |-> "",
          one_hot |-> p.one_hot,
          out |-> <<f2.out, p.next_feature_pred, p.action_pred>>]

\* Lines 273-276, given the two encodings.
ICMNet_pred(m, f1, f2, action) ==
    IF f2.err # "" THEN ICMFail(m, f1.enc, f2.err, <<>>)
    ELSE ICMNet_ret(m, f2, AdversarialHead_forward(m.in_size, m.num_actions,
                                                   f1.out, f2.out, action))

\* Lines 272-273, given the encoding of current_state.
ICMNet_next(m, f1, next_state, action) ==
    IF f1.err # "" THEN ICMFail(m, m.feat_enc_net, f1.err, <<>>)
    ELSE ICMNet_pred(m, f1, forward(f1.enc, next_state), action)

\* ICMNet.forward(current_state, next_state, action): the module afterwards,
\* the error raised, the one-hot encoding of pred_net and the three results.
ICMNet_forward(m, current_state, next_state, action) ==
    ICMNet_next(m, forward(m.feat_enc_net, current_state), next_state, action)

----------
(* A2CNet *)

\* A2CNet(n_stack, num_envs, num_actions, in_size, writer): the head and its
\* encoder, the LSTM buffers sized for num_envs.
A2CNet(n_stack, num_envs, num_actions, in_size, writer) ==
    [head |-> [present |-> TRUE, writer |-> writer, num_step |-> 0, hist |-> 0,
               in_size |-> in_size, num_actions |-> num_actions],
     enc  |-> reset_lstm(FeatureEncoderNet(n_stack, in_size, TRUE),
                         Some(num_envs), None).enc]

\* The state of a bare recurrent encoder, with no head around it.
NoHead ==
    [present |-> FALSE, writer |-> FALSE, num_step |-> 0, hist |-> 0,
     in_size |-> 0, num_actions |-> 0]

\* torch.squeeze of a [d0, 1] tensor: its shape.
squeeze(d0) == IF d0 = 1 THEN <<>> ELSE <<d0>>

\* Lines 343-353 with the increment of num_step inside the block of the
\* writer: the steps are counted only when histograms are written.
A2CNet_heads_counting_writes(hd, e, f) ==
    IF f.err # "" THEN
        [head |-> hd, enc |-> e, err |-> f.err, policy |-> Unset, value |-> <<>>]
    ELSE
        [head |-> [hd EXCEPT !.num_step = IF hd.writer THEN @ + 1 ELSE @,
                             !.hist = IF hd.writer THEN @ + 3 ELSE @],
         enc |-> f.enc, err |-> "",
         policy |-> Linear(h1, hd.num_actions, f.out).out,
         value |-> squeeze(Linear(h1, 1, f.out).out.d0)]

\* Lines 340-353 with the increment of num_step moved before the call of the
\* encoder: a call that raises has counted itself.
A2CNet_heads_counting_first(hd, e, f) ==
    IF f.err # "" THEN
        [head |-> [hd EXCEPT !.num_step = @ + 1], enc |-> e, err |-> f.err,
         policy |-> Unset, value |-> <<>>]
    ELSE
        [head |-> [hd EXCEPT !.num_step = @ + 1,
                             !.hist = IF hd.writer THEN @ + 3 ELSE @],
         enc |-> f.enc, err |-> "",
         policy |-> Linear(h1, hd.num_actions, f.out).out,
         value |-> squeeze(Linear(h1, 1, f.out).out.d0)]

\* Lines 343-353, given the outcome of the encoder.
A2CNet_heads(hd, e, f) ==
    IF f.err # "" THEN
        [head |-> hd, enc |-> e, err |-> f.err, policy |-> Unset, value |-> <<>>]
    ELSE
        [head |-> [hd EXCEPT !.num_step = @ + 1,
                             !.hist = IF hd.writer THEN @ + 3 ELSE @],
         enc |-> f.enc, err |-> "",
         policy |-> Linear(h1, hd.num_actions, f.out).out,
         value |-> squeeze(Linear(h1, 1, f.out).out.d0)]

\* A2CNet.forward(state): head and encoder afterwards, the error raised, the
\* policy logits and the shape of the value.
A2CNet_forward(hd, e, state) == A2CNet_heads(hd, e, forward(e, state))

\* Lines 369-373, given the outcome r of self(state): the outcomes the call
\* can have.  Categorical and its sampling fail on a policy that holds a NaN
\* or return some action, depending on the torch build.  A result is the
\* shapes of (action, log_prob, entropy, value).
get_action_sample(r) ==
    IF r.err # "" THEN {[head |-> r.head, enc |-> r.enc, err |-> r.err, out |-> <<>>]}
    ELSE {[head |-> r.head, enc |-> r.enc, err |-> "",
           out |-> << <<r.policy.d0>>, <<r.policy.d0>>, <<>>, r.value >>]}
         \cup (IF \E i \in 1 .. r.policy.d0 : r.policy.rows[i] = NaN
               THEN {[head |-> r.head, enc |-> r.enc, err |-> "value", out |-> <<>>]}
               ELSE {})

\* A2CNet.get_action(state): the outcomes the call can have.
get_action(hd, e, state) == get_action_sample(A2CNet_forward(hd, e, state))

----------------------------------------------------------------------------------------------------------------------------------------------
(* Inputs *)

\* Contents of one observation: finite, or holding a NaN.
ObsVals == {0, NaN}

\* Stacks of 84x84 frames, the size the network is built for ...
Frames(n, rows) == [n |-> n, c |-> default_n_stack, hw |-> 84, rows |-> rows]

\* ... and batches of other shapes: 42x42 frames, a wrong number of
\* channels, frames too small for the pooling.
OddFrames(n, kinds) ==
    {[n |-> n, c |-> k.c, hw |-> k.hw, rows |-> [i \in 1 .. n |-> 0]] : k \in kinds}

Observations ==
    UNION {{Frames(n, r) : r \in [1 .. n -> ObsVals]}
              \cup OddFrames(n, {[c |-> default_n_stack, hw |-> 42],
                                 [c |-> 1, hw |-> 84]}) :
              n \in 1 .. MaxBatch}

ZeroObservations ==
    UNION {{Frames(n, [i \in 1 .. n |-> 0])}
              \cup OddFrames(n, {[c |-> default_n_stack, hw |-> 42],
                                 [c |-> 1, hw |-> 84],
                                 [c |-> default_n_stack, hw |-> 16]}) :
              n \in 1 .. MaxBatch}

Masks == UNION {[1 .. m -> BOOLEAN] : m \in 1 .. MaxBatch}

BufSizes == 0 .. MaxBatch

InSizes == {default_in_size, 144}

IcmInSizes == {default_in_size, 144, 32}

NumActions == {2, 3}

\* Action batches, entries up to the largest action count (out of range for
\* a module built with fewer actions).
ActionVectors == UNION {[1 .. m -> 0 .. 2] : m \in 1 .. MaxBatch}

\* What a rollout passes to the curiosity module: the frames before and
\* after a step of n environments, and the n actions taken.
RolloutInputs ==
    UNION {{<<Frames(n, [i \in 1 .. n |-> 0]), Frames(n, [i \in 1 .. n |-> 0]), a>> :
               a \in [1 .. n -> 0 .. icm.num_actions - 1]} : n \in 1 .. MaxBatch}

\* Any batches: frames of either size, batch sizes that need not agree.
AnyInputs ==
    {<<[n |-> n, c |-> default_n_stack, hw |-> hw, rows |-> [i \in 1 .. n |-> 0]],
       [n |-> n2, c |-> default_n_stack, hw |-> hw, rows |-> [i \in 1 .. n2 |-> 0]],
       a>> :
        n \in 1 .. MaxBatch, n2 \in 1 .. MaxBatch, hw \in {84, 42}, a \in ActionVectors}

ResetArgs ==
    {<<Some(b), None>> : b \in BufSizes} \cup {<<None, None>>}
        \cup {<<None, Some(m)>> : m \in Masks}

shape(t) == <<t.d0, t.d1>>

Ret(op, err, n, arg, out, one_hot) ==
    [op |-> op, err |-> err, n |-> n, arg |-> arg, out |-> out, one_hot |-> one_hot]

----------------------------------------------------------------------------
(* LogData and TemporalLogger (src/src/logger.py) *)

RECURSIVE gcd(_, _)
gcd(a, b) == IF b = 0 THEN a ELSE gcd(b, a % b)

\* A numpy scalar: its dtype kind t ("i" for an integer, "f" for a float) and
\* its value, the fraction n/d in lowest terms, or its square root where rt.
Scalar(t, n, d, rt) == [t |-> t, n |-> n, d |-> d, rt |-> rt]

\* n/d as a float
Frac(n, d) == Scalar("f", n \div gcd(n, d), d \div gcd(n, d), FALSE)

\* float('nan'): what numpy returns for the mean and the std of no elements
nan == Scalar("f", 0, 0, FALSE)

RECURSIVE Sum(_)
Sum(xs) == IF xs = <<>> THEN 0 ELSE Head(xs) + Sum(Tail(xs))

Squares(xs) == [i \in 1 .. Len(xs) |-> xs[i] * xs[i]]

\* sample.mean(): a float whatever the dtype of the sample
sample_mean(sample) ==
    IF sample.xs = <<>> THEN nan ELSE Frac(Sum(sample.xs), Len(sample.xs))

\* The variance of the sample times the square of its length.
SquaredDeviation(xs) == Len(xs) * Sum(Squares(xs)) - Sum(xs) * Sum(xs)

\* sample.std(): the square root of the mean squared deviation from the mean
sample_std(sample) ==
    IF sample.xs = <<>> THEN nan
    ELSE IF SquaredDeviation(sample.xs) = 0 THEN Frac(0, 1)
    ELSE [Frac(SquaredDeviation(sample.xs), Len(sample.xs) * Len(sample.xs))
             EXCEPT !.rt = TRUE]

\* sample.min() and sample.max() of a sample that has an element: an element
\* of the sample, of the sample's dtype
sample_min(sample) ==
    Scalar(sample.dtype,
           CHOOSE x \in {sample.xs[i] : i \in 1 .. Len(sample.xs)} :
               \A i \in 1 .. Len(sample.xs) : x <= sample.xs[i],
           1, FALSE)

sample_max(sample) ==
    Scalar(sample.dtype,
           CHOOSE x \in {sample.xs[i] : i \in 1 .. Len(sample.xs)} :
               \A i \in 1 .. Len(sample.xs) : x >= sample.xs[i],
           1, FALSE)

\* LogData(): four empty lists
LogData ==
    [kind |-> "list", mean |-> <<>>, std |-> <<>>, min |-> <<>>, max |-> <<>>]

\* LogData.log(sample).  The four appends run in turn: an ndarray, which is
\* what load leaves in the attributes, has no append, and min() of a sample
\* without elements raises after mean and std were appended.
LogData_log(d, sample) ==
    IF d.kind # "list" THEN [data |-> d, err |-> "attr"]
    ELSE IF sample.xs = <<>>
    THEN [data |-> [d EXCEPT !.mean = Append(@, nan), !.std = Append(@, nan)],
          err |-> "value"]
    ELSE [data |-> [d EXCEPT !.mean = Append(@, sample_mean(sample)),
                             !.std = Append(@, sample_std(sample)),
                             !.min = Append(@, sample_min(sample)),
                             !.max = Append(@, sample_max(sample))],
          err |-> ""]

\* numpy.asarray(val), which create_dataset applies to its data: one dtype
\* for all the elements, float as soon as one of them is a float.
asarray(val) ==
    IF \E i \in 1 .. Len(val) : val[i].t = "f"
    THEN [i \in 1 .. Len(val) |-> [val[i] EXCEPT !.t = "f"]]
    ELSE val

\* LogData.save(group): the datasets the group holds afterwards
LogData_save(d) ==
    [mean |-> asarray(d.mean), std |-> asarray(d.std),
     min |-> asarray(d.min), max |-> asarray(d.max)]

\* The number of elements of a[::step]
slice_len(a, step) ==
    IF step > 0 THEN (Len(a) + step - 1) \div step
    ELSE (Len(a) + (0 - step) - 1) \div (0 - step)

\* a[::step] with every element from the second on: the stride starts at
\* index 1 instead of index 0.
slice_from_second(a, step) ==
    [i \in 1 .. (Len(a) \div step) |-> a[i * step]]

\* a[::step] for a step other than 0: from the first element forwards, or
\* from the last one backwards
slice(a, step) ==
    [i \in 1 .. slice_len(a, step) |->
        IF step > 0 THEN a[1 + (i - 1) * step]
        ELSE a[Len(a) - (i - 1) * (0 - step)]]

\* LogData.load(group, decimate_step), the step not 0
LogData_load(group, decimate_step) ==
    [kind |-> "ndarray",
     mean |-> slice(group.mean, decimate_step),
     std |-> slice(group.std, decimate_step),
     min |-> slice(group.min, decimate_step),
     max |-> slice(group.max, decimate_step)]

\* TemporalLogger(env_name, timestamp, log_dir, *args): one LogData per
\* name, in the order of the names
TemporalLogger(args) ==
    [keys |-> args, data |-> [k \in {args[i] : i \in 1 .. Len(args)} |-> LogData]]

\* TemporalLogger.log(**kwargs): the keyword arguments in their order, up to
\* the first that raises
RECURSIVE TemporalLogger_log(_, _)
TemporalLogger_log(lg, kwargs) ==
    IF kwargs = <<>> THEN [logger |-> lg, err |-> ""]
    ELSE IF Head(kwargs)[1] \notin DOMAIN lg.data THEN [logger |-> lg, err |-> "key"]
    ELSE \* one LogData.log
         CHOOSE out \in
             {IF r.err # ""
              THEN [logger |-> [lg EXCEPT !.data[Head(kwargs)[1]] = r.data], err |-> r.err]
              ELSE TemporalLogger_log([lg EXCEPT !.data[Head(kwargs)[1]] = r.data],
                                      Tail(kwargs)) :
                 r \in {LogData_log(lg.data[Head(kwargs)[1]], Head(kwargs)[2])}} : TRUE

\* No file written yet.
NoFile == [exists |-> FALSE, groups |-> <<>>]

\* TemporalLogger.save(*args), the file opened with 'w': one group per name,
\* in the order of the names, up to the first that raises.
RECURSIVE TemporalLogger_save(_, _, _)
TemporalLogger_save(lg, f, args) ==
    IF args = <<>> THEN [file |-> f, err |-> ""]
    ELSE IF Head(args) \notin DOMAIN lg.data THEN [file |-> f, err |-> "key"]
    ELSE IF Head(args) \in DOMAIN f.groups THEN [file |-> f, err |-> "value"]
    ELSE TemporalLogger_save(
             lg,
             [f EXCEPT !.groups = @ @@ (Head(args) :> LogData_save(lg.data[Head(args)]))],
             Tail(args))

\* TemporalLogger.load(filename, decimate_step): every LogData of the logger
\* in the order of the attributes, up to the first that raises.
RECURSIVE TemporalLogger_load(_, _, _, _)
TemporalLogger_load(lg, f, decimate_step, keys) ==
    IF ~f.exists THEN [logger |-> lg, err |-> "os"]
    ELSE IF keys = <<>> THEN [logger |-> lg, err |-> ""]
    ELSE IF Head(keys) \notin DOMAIN f.groups THEN [logger |-> lg, err |-> "key"]
    ELSE IF decimate_step = 0 THEN [logger |-> lg, err |-> "value"]
    ELSE TemporalLogger_load(
             [lg EXCEPT !.data[Head(keys)] = LogData_load(f.groups[Head(keys)], decimate_step)],
             f, decimate_step, Tail(keys))

\* The names the logger is built with.
Metrics == <<"rewards", "features">>

\* Samples: integer and float arrays, and an array without elements.
Samples ==
    {[dtype |-> "i", xs |-> <<1, 2, 3>>], [dtype |-> "i", xs |-> <<4, 5, 6>>],
     [dtype |-> "i", xs |-> <<7, 8, 9>>], [dtype |-> "f", xs |-> <<2, 2>>],
     [dtype |-> "f", xs |-> <<>>]}

\* The samples of the second metric: a float array.
FeatureSamples == {[dtype |-> "f", xs |-> <<1, 3>>]}

\* log(rewards=s), log(features=t) and log(rewards=s, features=t)
Kwargs ==
    {<< <<Metrics[1], s>> >> : s \in Samples}
        \cup {<< <<Metrics[2], t>> >> : t \in FeatureSamples}
        \cup {<< <<Metrics[1], s>>, <<Metrics[2], t>> >> : s \in Samples, t \in FeatureSamples}

\* save(), save("rewards"), save("features"), save("rewards", "features")
SaveArgs ==
    {<<>>, <<Metrics[1]>>, <<Metrics[2]>>, Metrics}

\* decimate_step: the default, strides of one and two, and zero
DecimateSteps == {default_decimate_step, 1, 2, 0}

RECURSIVE Recorded(_, _)
\* How many elements the mean lists of the logger hold together.
Recorded(lg, keys) ==
    IF keys = <<>> THEN 0 ELSE Len(lg.data[Head(keys)].mean) + Recorded(lg, Tail(keys))

----------------------------------------------------------------------------
(* Calls on the logger *)

\* logger.log(**kwargs)
log_call ==
    /\ \E kwargs \in Kwargs :
          /\ Recorded(logger, logger.keys) + Len(kwargs) <= MaxRecords
          /\ \E r \in {TemporalLogger_log(logger, kwargs)} :
                /\ logger' = r.logger
                /\ ret' = Ret("log", r.err, 0, kwargs, <<>>, <<>>)
    /\ UNCHANGED <<cuda, enc, head, icm, file, slots>>

\* logger.save(*args)
save_call ==
    /\ \E args \in SaveArgs :
          \E r \in {TemporalLogger_save(logger, [exists |-> TRUE, groups |-> <<>>], args)} :
              /\ file' = r.file
              /\ ret' = Ret("save", r.err, 0, args, <<>>, <<>>)
    /\ UNCHANGED <<cuda, enc, head, icm, logger, slots>>

\* logger.load(filename, decimate_step)
load_call ==
    /\ \E k \in DecimateSteps :
          \E r \in {TemporalLogger_load(logger, file, k, logger.keys)} :
              /\ logger' = r.logger
              /\ ret' = Ret("load", r.err, 0, k, <<>>, <<>>)
    /\ UNCHANGED <<cuda, enc, head, icm, file, slots>>

----------------------------------------------------------------------------
(* Calls on the actor-critic head *)

\* A2CNet._set_recurrent_buffers(buf_size)
set_recurrent_buffers ==
    /\ head.present
    /\ \E b \in BufSizes :
          \E r \in {reset_lstm(enc, Some(b), None)} :
              /\ enc' = r.enc
              /\ ret' = Ret("reset_lstm", r.err, 0, <<Some(b), None>>, <<>>, <<>>)
    /\ UNCHANGED <<cuda, head, icm, logger, file, slots>>

\* A2CNet.reset_recurrent_buffers(reset_indices)
reset_recurrent_buffers ==
    /\ head.present
    /\ \E ri \in {None} \cup {Some(m) : m \in Masks} :
          \E r \in {reset_lstm(enc, None, ri)} :
              /\ enc' = r.enc
              /\ ret' = Ret("reset_lstm", r.err, 0, <<None, ri>>, <<>>, <<>>)
    /\ UNCHANGED <<cuda, head, icm, logger, file, slots>>

\* policy, value = a2c(state)
A2CNet_call ==
    /\ head.present
    /\ head.num_step < MaxSteps
    /\ \E x \in Observations :
          \E r \in {A2CNet_forward(head, enc, x)} :
              /\ head' = r.head
              /\ enc' = r.enc
              /\ ret' = Ret("A2CNet.forward", r.err, x.n, <<>>,
                            IF r.err = "" THEN <<shape(r.policy), r.value>> ELSE <<>>,
                            <<>>)
    /\ UNCHANGED <<cuda, icm, logger, file, slots>>

\* a2c.get_action(state)
get_action_call ==
    /\ head.present
    /\ head.num_step < MaxSteps
    /\ \E x \in Observations :
          \E r \in get_action(head, enc, x) :
              /\ head' = r.head
              /\ enc' = r.enc
              /\ ret' = Ret("get_action", r.err, x.n, <<>>, r.out, <<>>)
    /\ UNCHANGED <<cuda, icm, logger, file, slots>>

----------------------------------------------------------------------------
(* Calls on a recurrent encoder that has no head around it *)

\* enc.reset_lstm(buf_size, reset_indices)
reset_lstm_call ==
    /\ ~head.present
    /\ \E a \in ResetArgs :
          \E r \in {reset_lstm(enc, a[1], a[2])} :
              /\ enc' = r.enc
              /\ ret' = Ret("reset_lstm", r.err, 0, a, <<>>, <<>>)
    /\ UNCHANGED <<cuda, head, icm, logger, file, slots>>

\* enc(x)
forward_call ==
    /\ ~head.present
    /\ \E x \in Observations :
          \E r \in {forward(enc, x)} :
              /\ enc' = r.enc
              /\ ret' = Ret("forward", r.err, x.n, <<>>,
                            IF r.err = "" THEN <<shape(r.out)>> ELSE <<>>, <<>>)
    /\ UNCHANGED <<cuda, head, icm, logger, file, slots>>

----------------------------------------------------------------------------
(* Calls on the curiosity module *)

\* icm(current_state, next_state, action), the arguments taken from inputs
ICMNet_call(inputs) ==
    /\ \E a \in inputs :
          \E r \in {ICMNet_forward(icm, a[1], a[2], a[3])} :
              /\ icm' = r.icm
              /\ ret' = Ret("ICMNet.forward", r.err, a[1].n, a[3],
                            [i \in 1 .. Len(r.out) |-> shape(r.out[i])], r.one_hot)
    /\ UNCHANGED <<cuda, enc, head, logger, file, slots>>

\* icm.feat_enc_net(x)
ICM_encode_call ==
    /\ \E x \in ZeroObservations :
          \E r \in {forward(icm.feat_enc_net, x)} :
              /\ icm' = [icm EXCEPT !.feat_enc_net = r.enc]
              /\ ret' = Ret("icm.forward", r.err, x.n, <<>>,
                            IF r.err = "" THEN <<shape(r.out)>> ELSE <<>>, <<>>)
    /\ UNCHANGED <<cuda, enc, head, logger, file, slots>>

\* icm.feat_enc_net.reset_lstm(buf_size, reset_indices)
ICM_reset_lstm_call ==
    /\ \E a \in ResetArgs :
          \E r \in {reset_lstm(icm.feat_enc_net, a[1], a[2])} :
              /\ icm' = [icm EXCEPT !.feat_enc_net = r.enc]
              /\ ret' = Ret("icm.reset_lstm", r.err, 0, a, <<>>, <<>>)
    /\ UNCHANGED <<cuda, enc, head, logger, file, slots>>

----------------------------------------------------------------------------
(* A rollout over the environment slots of the head *)

\* Contents of the observation of one slot.
SlotObsVals == {0, 1, NaN}

\* One observation per slot, for n slots.
SlotObservations(n) == {Frames(n, r) : r \in [1 .. n -> SlotObsVals]}

\* The row of a slot that was just reset, or of a memory just allocated.
FreshSlot == [h |-> 0, c |-> 0]

\* What one more observation of its own makes of the row of each slot.
slots_forward(sl, x) ==
    [i \in 1 .. Len(sl) |-> LSTMCell_row(x.rows[i], sl[i].h, sl[i].c)]

\* What a reset signal per slot makes of the row of each slot.
slots_reset(sl, mask) ==
    [i \in 1 .. Len(sl) |-> IF mask[i] THEN FreshSlot ELSE sl[i]]

\* a2c._set_recurrent_buffers(b): the memory allocated anew for b slots
rollout_allocate ==
    /\ head.present
    /\ \E b \in 1 .. MaxBatch :
          \E r \in {reset_lstm(enc, Some(b), None)} :
              /\ enc' = r.enc
              /\ ret' = Ret("reset_lstm", r.err, 0, <<Some(b), None>>, <<>>, <<>>)
              /\ slots' = IF r.err = "" THEN [i \in 1 .. b |-> FreshSlot] ELSE slots
    /\ UNCHANGED <<cuda, head, icm, logger, file>>

\* a2c(state), state holding one observation per slot
rollout_forward ==
    /\ head.present
    /\ head.num_step < MaxSteps
    /\ \E x \in SlotObservations(Len(slots)) :
          \E r \in {A2CNet_forward(head, enc, x)} :
              /\ head' = r.head
              /\ enc' = r.enc
              /\ ret' = Ret("A2CNet.forward", r.err, x.n, <<>>,
                            IF r.err = "" THEN <<shape(r.policy), r.value>> ELSE <<>>,
                            <<>>)
              /\ slots' = IF r.err = "" THEN slots_forward(slots, x) ELSE slots
    /\ UNCHANGED <<cuda, icm, logger, file>>

\* a2c.reset_recurrent_buffers(dones), dones holding one boolean per slot
rollout_reset ==
    /\ head.present
    /\ \E mask \in [1 .. Len(slots) -> BOOLEAN] :
          \E r \in {reset_lstm(enc, None, Some(mask))} :
              /\ enc' = r.enc
              /\ ret' = Ret("reset_lstm", r.err, 0, <<None, Some(mask)>>, <<>>, <<>>)
              /\ slots' = IF r.err = "" THEN slots_reset(slots, mask) ELSE slots
    /\ UNCHANGED <<cuda, head, icm, logger, file>>

----------------------------------------------------------------------------
(* Specifications *)

NoCall == Ret("init", "", 0, <<>>, <<>>, <<>>)

\* The construction of an A2CNet, as the last call.
Built(num_envs) == Ret("A2CNet", "", 0, <<Some(num_envs), None>>, <<>>, <<>>)

\* An A2CNet built with any LSTM input size, number of environments and
\* writer, or a bare recurrent encoder.  The curiosity module stands by,
\* never called.
Init ==
    /\ cuda \in BOOLEAN
    /\ logger = TemporalLogger(Metrics) /\ file = NoFile /\ slots = <<>>
    /\ icm = ICMNet(default_n_stack, 3, default_in_size)
    /\ \/ \E in_size \in InSizes, num_envs \in 1 .. MaxBatch, w \in BOOLEAN :
             \E a \in {A2CNet(default_n_stack, num_envs, 3, in_size, w)} :
                 head = a.head /\ enc = a.enc /\ ret = Built(num_envs)
       \/ \E in_size \in InSizes :
             /\ head = NoHead
             /\ enc = FeatureEncoderNet(default_n_stack, in_size, TRUE)
             /\ ret = NoCall

Next ==
    \/ set_recurrent_buffers
    \/ reset_recurrent_buffers
    \/ A2CNet_call
    \/ get_action_call
    \/ reset_lstm_call
    \/ forward_call

Spec == Init /\ [][Next]_vars

\* The curiosity module alone, over the feature sizes and action counts it
\* can be built with, called with any batches.
InitICM ==
    /\ cuda \in BOOLEAN
    /\ logger = TemporalLogger(Metrics) /\ file = NoFile /\ slots = <<>>
    /\ \E A \in NumActions, in_size \in IcmInSizes :
          icm = ICMNet(default_n_stack, A, in_size)
    /\ head = NoHead
    /\ enc = FeatureEncoderNet(default_n_stack, default_in_size, TRUE)
    /\ ret = NoCall

NextICM ==
    \/ ICMNet_call(AnyInputs)
    \/ ICM_encode_call
    \/ ICM_reset_lstm_call

SpecICM == InitICM /\ [][NextICM]_vars

\* The agent: an A2CNet and an ICMNet built with their default sizes for the
\* same environments, the calls on the two interleaved in any order.
InitAgent ==
    /\ cuda \in BOOLEAN
    /\ logger = TemporalLogger(Metrics) /\ file = NoFile /\ slots = <<>>
    /\ \E A \in NumActions, num_envs \in 1 .. MaxBatch :
          /\ icm = ICMNet(default_n_stack, A, default_in_size)
          /\ \E a \in {A2CNet(default_n_stack, num_envs, A, default_in_size, FALSE)} :
                head = a.head /\ enc = a.enc /\ ret = Built(num_envs)

NextAgent ==
    \/ set_recurrent_buffers
    \/ reset_recurrent_buffers
    \/ A2CNet_call
    \/ get_action_call
    \/ ICMNet_call(RolloutInputs)
    \/ ICM_reset_lstm_call

SpecAgent == InitAgent /\ [][NextAgent]_vars

\* The logger alone: built for its two metrics, nothing logged, no file.
InitLog ==
    /\ cuda = FALSE
    /\ icm = ICMNet(default_n_stack, 3, default_in_size)
    /\ head = NoHead
    /\ enc = FeatureEncoderNet(default_n_stack, default_in_size, TRUE)
    /\ ret = NoCall
    /\ slots = <<>>
    /\ logger = TemporalLogger(Metrics)
    /\ file = NoFile

NextLog ==
    \/ log_call
    \/ save_call
    \/ load_call

SpecLog == InitLog /\ [][NextLog]_vars

\* A rollout: an A2CNet of the default sizes built for its environments, then
\* called with one observation and one reset signal per slot.
InitSlots ==
    /\ cuda \in BOOLEAN
    /\ logger = TemporalLogger(Metrics) /\ file = NoFile
    /\ icm = ICMNet(default_n_stack, 3, default_in_size)
    /\ \E num_envs \in 1 .. MaxBatch :
          /\ \E a \in {A2CNet(default_n_stack, num_envs, 3, default_in_size, FALSE)} :
                head = a.head /\ enc = a.enc /\ ret = Built(num_envs)
          /\ slots = [i \in 1 .. num_envs |-> FreshSlot]

NextSlots ==
    \/ rollout_allocate
    \/ rollout_forward
    \/ rollout_reset

SpecSlots == InitSlots /\ [][NextSlots]_vars

----------------------------------------------------------------------------
(* What the last call was *)

\* The last call was reset_lstm on the recurrent encoder with a mask.
MaskedReset(r) == r.op = "reset_lstm" /\ ~IsNone(r.arg[2])

\* The last call was reset_lstm on the recurrent encoder with no mask.
MasklessReset(r) == r.op = "reset_lstm" /\ IsNone(r.arg[2])

\* The last call was a forward pass through the recurrent encoder.
StatefulForward(r) == r.op \in {"forward", "A2CNet.forward", "get_action"}

AllFalse(mask) == \A i \in 1 .. Len(mask) : ~mask[i]

Initialized(e) == e.h_t1.def /\ e.c_t1.def

----------------------------------------------------------------------------
(* C1 *)

\* C1: a reset with a boolean mask as long as the memory completes, and
\* leaves row i of hidden and of cell zero where mask[i] is true and as it
\* was where mask[i] is false.
C1_MaskedResetZeroesRows ==
    [][(/\ MaskedReset(ret')
        /\ Initialized(enc)
        /\ Len(ret'.arg[2][1]) = enc.h_t1.d0
        /\ Len(ret'.arg[2][1]) = enc.c_t1.d0)
       => /\ ret'.err = ""
          /\ Initialized(enc')
          /\ enc'.h_t1.d0 = enc.h_t1.d0
          /\ enc'.c_t1.d0 = enc.c_t1.d0
          /\ \A i \in 1 .. enc.h_t1.d0 :
                /\ enc'.h_t1.rows[i] = IF ret'.arg[2][1][i] THEN 0 ELSE enc.h_t1.rows[i]
                /\ enc'.c_t1.rows[i] = IF ret'.arg[2][1][i] THEN 0 ELSE enc.c_t1.rows[i]]_vars

----------------------------------------------------------------------------
(* C2 *)

\* C2: a reset with an all-false mask, in any state and so also right after
\* the memory was allocated, returns and leaves the encoder, hidden and cell
\* with it, exactly as it was.
C2_AllFalseMaskChangesNothing ==
    [][(MaskedReset(ret') /\ AllFalse(ret'.arg[2][1]))
       => (ret'.err = "" /\ enc' = enc)]_vars

\* An all-false mask as long as the memory was applied to a memory that
\* holds a row that is not zero.
C2_Witness ==
    /\ MaskedReset(ret)
    /\ AllFalse(ret.arg[2][1])
    /\ Initialized(enc)
    /\ Len(ret.arg[2][1]) = enc.h_t1.d0
    /\ enc.h_t1.d0 = 2
    /\ \E i \in 1 .. enc.h_t1.d0 : enc.h_t1.rows[i] # 0 /\ enc.c_t1.rows[i] # 0

----------------------------------------------------------------------------
(* C3 *)

\* C3: no forward pass and no reset with a mask, of whatever length, changes
\* the first dimension of hidden or of cell.
C3_NeverResizedImplicitly ==
    [][((StatefulForward(ret') \/ MaskedReset(ret')) /\ Initialized(enc))
       => /\ Initialized(enc')
          /\ enc'.h_t1.d0 = enc.h_t1.d0
          /\ enc'.c_t1.d0 = enc.c_t1.d0]_vars

----------------------------------------------------------------------------
(* C4 *)

\* C4: a forward pass through the recurrent encoder returns only if the
\* memory was allocated and its first dimension is the batch size of the
\* observations; otherwise it raises.
C4_ForwardNeedsMatchingMemory ==
    [][(StatefulForward(ret') /\ ret'.err = "")
       => /\ Initialized(enc)
          /\ enc.h_t1.d0 = ret'.n
          /\ enc.c_t1.d0 = ret'.n]_vars

----------------------------------------------------------------------------
(* C5 *)

\* C5: after the construction of an A2CNet for N environments, and after
\* every reset without a mask that is given a batch size B, whatever the
\* memory held before, hidden and cell are all zero, of shape [N, 256] and
\* [B, 256], and the reset has returned.
C5_MemoryAllocatedZero ==
    (ret.op = "A2CNet" \/ (MasklessReset(ret) /\ ~IsNone(ret.arg[1])))
    => /\ ret.err = ""
       /\ Initialized(enc)
       /\ shape(enc.h_t1) = <<ret.arg[1][1], 256>>
       /\ shape(enc.c_t1) = <<ret.arg[1][1], 256>>
       /\ \A i \in 1 .. ret.arg[1][1] : enc.h_t1.rows[i] = 0 /\ enc.c_t1.rows[i] = 0

\* A memory already sized and used by two forward passes was reset without
\* a mask, to the largest batch size.
C5_Witness ==
    /\ MasklessReset(ret)
    /\ ~IsNone(ret.arg[1])
    /\ ret.err = ""
    /\ head.num_step = 2
    /\ enc.h_t1.d0 = MaxBatch

----------------------------------------------------------------------------
(* C6 *)

\* C6: a call of the curiosity module built with feature size F and A
\* actions, on N observations, that returns, returns the actual next feature
\* of shape [N, F], the predicted next feature of shape [N, F] and the
\* predicted action logits of shape [N, A].
C6_PredictShapes ==
    (ret.op = "ICMNet.forward" /\ ret.err = "")
    => ret.out = << <<ret.n, icm.in_size>>, <<ret.n, icm.in_size>>,
                    <<ret.n, icm.num_actions>> >>

----------------------------------------------------------------------------
(* C7 *)

\* C7: the non-recurrent encoder built with feature size F, called on N
\* observations, returns a tensor of shape [N, F] or raises; it returns
\* nothing whose first dimension is not N.
C7_EncodeKeepsBatch ==
    (ret.op = "icm.forward" /\ ret.err = "") => ret.out = << <<ret.n, icm.in_size>> >>

----------------------------------------------------------------------------
(* C8 *)

InRange(action, num_actions) ==
    \A r \in 1 .. Len(action) : action[r] >= 0 /\ action[r] < num_actions

\* C8: whenever the curiosity module gets as far as its prediction head with
\* actions in [0, num_actions), and so whenever it returns on them, the one-hot
\* encoding it has built for this call has one row per action, each of
\* length num_actions with a single 1, at the position of the row's action,
\* and 0 elsewhere.
C8_OneHot ==
    (ret.op = "ICMNet.forward" /\ InRange(ret.arg, icm.num_actions))
    => /\ ret.err = "" => ret.one_hot # <<>>
       /\ ret.one_hot # <<>> =>
             /\ Len(ret.one_hot) = Len(ret.arg)
             /\ \A r \in 1 .. Len(ret.arg) :
                   /\ Len(ret.one_hot[r]) = icm.num_actions
                   /\ ret.one_hot[r][ret.arg[r] + 1] = 1
                   /\ Cardinality({j \in 1 .. icm.num_actions : ret.one_hot[r][j] = 1}) = 1
                   /\ \A j \in 1 .. icm.num_actions : ret.one_hot[r][j] \in {0, 1}

\* A call with two rows of different actions, the first of them action 0,
\* has returned.
C8_Witness ==
    /\ ret.op = "ICMNet.forward"
    /\ ret.err = ""
    /\ Len(ret.arg) = 2
    /\ ret.arg[1] = 0
    /\ ret.arg[2] = icm.num_actions - 1
    /\ ret.one_hot[1] # ret.one_hot[2]

----------------------------------------------------------------------------
(* C9 *)

HeadCall(r) == r.op \in {"A2CNet.forward", "get_action"}

----------------------------------------------------------------------------
(* C10 *)

IcmCall(r) == r.op \in {"ICMNet.forward", "icm.reset_lstm"}

\* C10: the encoder of the curiosity module is not recurrent and never holds a
\* memory; a call of the curiosity module, and a reset of its encoder with
\* whatever arguments, changes nothing of the curiosity module, of the
\* encoder of the head with its hidden and cell, or of the head with its step
\* counter; and such a reset returns.
C10_PredictorKeepsNoState ==
    [][IcmCall(ret')
       => /\ ~icm.feat_enc_net.is_lstm
          /\ ~icm'.feat_enc_net.h_t1.def /\ ~icm'.feat_enc_net.c_t1.def
          /\ icm' = icm
          /\ enc' = enc
          /\ head' = head
          /\ ret'.op = "icm.reset_lstm" => ret'.err = ""]_vars

\* The curiosity module has returned while the memory of the head holds what
\* two forward passes have left there.
C10_Witness ==
    /\ ret.op = "ICMNet.forward"
    /\ ret.err = ""
    /\ head.num_step = 2
    /\ \E i \in 1 .. enc.h_t1.d0 : enc.h_t1.rows[i] # 0

----------------------------------------------------------------------------
(* C11 *)

Stats == {"mean", "std", "min", "max"}

\* The elements of a at the indices 0, k, 2k, ... (counted from 0), in order.
EveryKth(a, k) ==
    [i \in 1 .. ((Len(a) + k - 1) \div k) |-> a[(i - 1) * k + 1]]

\* The same numbers in the same order, whatever their dtypes.
SameNumbers(a, b) ==
    /\ Len(a) = Len(b)
    /\ \A i \in 1 .. Len(a) :
          a[i].n = b[i].n /\ a[i].d = b[i].d /\ a[i].rt = b[i].rt

\* C11: a save that returns has written, for each metric it names, four
\* arrays that hold the numbers recorded, in the order they were recorded;
\* and a load with a stride k >= 1 that returns leaves in each of the four
\* sequences of each metric exactly the elements 0, k, 2k, ... of the array
\* in the file, in order: with k = 1, all of them.
C11_RestoreDecimates ==
    [][/\ (ret'.op = "save" /\ ret'.err = "")
             => /\ file'.exists
                /\ DOMAIN file'.groups = {ret'.arg[i] : i \in 1 .. Len(ret'.arg)}
                /\ \A m \in DOMAIN file'.groups : \A st \in Stats :
                      SameNumbers(file'.groups[m][st], logger.data[m][st])
       /\ (ret'.op = "load" /\ ret'.err = "" /\ ret'.arg >= 1)
             => \A m \in DOMAIN logger'.data : \A st \in Stats :
                   /\ logger'.data[m][st] = EveryKth(file.groups[m][st], ret'.arg)
                   /\ ret'.arg = 1 => logger'.data[m][st] = file.groups[m][st]]_vars

\* The means 2.0, 5.0, 8.0 of [1,2,3], [4,5,6], [7,8,9] were saved, and a load
\* with stride 2 has restored 2.0 and 8.0.
C11_Witness ==
    /\ ret.op = "load"
    /\ ret.err = ""
    /\ ret.arg = 2
    /\ file.groups["rewards"].mean = <<Frac(2, 1), Frac(5, 1), Frac(8, 1)>>
    /\ logger.data["rewards"].mean = <<Frac(2, 1), Frac(8, 1)>>
    /\ logger.data["rewards"].min = <<Scalar("i", 1, 1, FALSE), Scalar("i", 7, 1, FALSE)>>

----------------------------------------------------------------------------
(* C12 *)

EqualLengths(d) ==
    Len(d.mean) = Len(d.std) /\ Len(d.std) = Len(d.min) /\ Len(d.min) = Len(d.max)

\* C12: every call of log returns and has appended, to each of the four
\* sequences of each metric it names, one element: the mean, the std, the
\* min and the max of that metric's sample; so at all times, whatever was
\* logged, saved and loaded, the four sequences of a metric have the same
\* length, and so have the four arrays of a metric in the file.
C12_RecordAppendsToAllFour ==
    [][/\ \A m \in DOMAIN logger'.data : EqualLengths(logger'.data[m])
       /\ \A m \in DOMAIN file'.groups : EqualLengths(file'.groups[m])
       /\ ret'.op = "log"
             => /\ ret'.err = ""
                /\ \A i \in 1 .. Len(ret'.arg) :
                      /\ logger'.data[ret'.arg[i][1]].mean
                            = Append(logger.data[ret'.arg[i][1]].mean, sample_mean(ret'.arg[i][2]))
                      /\ logger'.data[ret'.arg[i][1]].std
                            = Append(logger.data[ret'.arg[i][1]].std, sample_std(ret'.arg[i][2]))
                      /\ logger'.data[ret'.arg[i][1]].min
                            = Append(logger.data[ret'.arg[i][1]].min, sample_min(ret'.arg[i][2]))
                      /\ logger'.data[ret'.arg[i][1]].max
                            = Append(logger.data[ret'.arg[i][1]].max, sample_max(ret'.arg[i][2]))]_vars

----------------------------------------------------------------------------
(* C13 *)

\* C13: a reset with a mask as long as the memory, that returns, leaves the
\* rows whose mask entry is false connected to the forward passes that
\* produced them: hidden and cell, which carried a gradient history before
\* the reset and hold a row that is not reset, still carry it afterwards.
C13_MaskedResetKeepsHistory ==
    [][(/\ MaskedReset(ret')
        /\ ret'.err = ""
        /\ Initialized(enc)
        /\ Len(ret'.arg[2][1]) = enc.h_t1.d0
        /\ enc.h_t1.grad /\ enc.c_t1.grad
        /\ \E i \in 1 .. Len(ret'.arg[2][1]) : ~ret'.arg[2][1][i])
       => (enc'.h_t1.grad /\ enc'.c_t1.grad)]_vars

----------------------------------------------------------------------------
(* C14 *)

\* C14: over a rollout, row i of hidden and of cell is what the observations
\* of slot i alone, since the last reset of slot i or the last allocation,
\* make of it: it depends neither on the observations and reset signals of
\* the other slots nor on anything slot i observed before its last reset.
C14_SlotIsolation ==
    /\ Initialized(enc)
    /\ enc.h_t1.d0 = Len(slots)
    /\ enc.c_t1.d0 = Len(slots)
    /\ \A i \in 1 .. Len(slots) :
          enc.h_t1.rows[i] = slots[i].h /\ enc.c_t1.rows[i] = slots[i].c

----------------------------------------------------------------------------
(* C15 *)

\* C15: a call of forward or get_action that raises a shape error, as it does
\* on a batch of another size than the memory, leaves the encoder, with
\* hidden and cell, and the head, with its step counter, as they were.
C15_FailedCallChangesNothing ==
    [][(HeadCall(ret') /\ ret'.err = "shape") => (enc' = enc /\ head' = head)]_vars

\* A call on one observation has failed on a memory of two rows that an
\* earlier call had left non-zero, the counter at one.
C15_Witness ==
    /\ HeadCall(ret)
    /\ ret.err = "shape"
    /\ ret.n = 1
    /\ head.num_step = 1
    /\ head.in_size = default_in_size
    /\ Initialized(enc)
    /\ enc.h_t1.d0 = 2
    /\ \E i \in 1 .. 2 : enc.h_t1.rows[i] # 0

====
